---- MODULE Spec2Model ----
(***************************************************************************)
(* Model of scripts/swift-test-to-junit.py: the line-by-line parser        *)
(* SwiftTestParser.parse_line, the report builder generate_junit_xml and   *)
(* the driver main().  Lines are TLA+ strings; the six regular expressions *)
(* of parse_line are evaluated by a small backtracking matcher with        *)
(* Python's greedy semantics, and float() is evaluated on the captured     *)
(* text, so which branch a line takes is computed, not assumed.            *)
(***************************************************************************)
EXTENDS Integers, Sequences, FiniteSets, TLC

\* Number of lines main() reads from stdin before end of input.
MaxLines == 4

(***************************************************************************)
(* Python values.  None and an optional value are modelled as the empty    *)
(* and the one-element tuple, so that they compare with every value.       *)
(***************************************************************************)
None == <<>>
Some(v) == <<v>>

Char(s, i) == SubSeq(s, i, i)

IsDigit(c) == c \in {"0", "1", "2", "3", "4", "5", "6", "7", "8", "9"}

DigitVal(c) ==
  CASE c = "0" -> 0 [] c = "1" -> 1 [] c = "2" -> 2 [] c = "3" -> 3
    [] c = "4" -> 4 [] c = "5" -> 5 [] c = "6" -> 6 [] c = "7" -> 7
    [] c = "8" -> 8 [] c = "9" -> 9

DigitChar(d) ==
  CASE d = 0 -> "0" [] d = 1 -> "1" [] d = 2 -> "2" [] d = 3 -> "3"
    [] d = 4 -> "4" [] d = 5 -> "5" [] d = 6 -> "6" [] d = 7 -> "7"
    [] d = 8 -> "8" [] d = 9 -> "9"

RECURSIVE Pow10(_)
Pow10(n) == IF n <= 0 THEN 1 ELSE 10 * Pow10(n - 1)

(***************************************************************************)
(* re.match(pattern, line): anchored at the start of the line, not at its  *)
(* end.  A pattern is a sequence of literals, `.+` (Dot) and `\d+` (Dig);  *)
(* cap says whether the element is a capturing group.  A quantifier takes  *)
(* the longest run after which the rest of the pattern matches, which is   *)
(* the first match Python's backtracking finds, so the groups are Python's.*)
(* The result is None or Some(<<group(1), group(2), ...>>).                *)
(***************************************************************************)
Lit(s) == [t |-> "lit", v |-> s, cap |-> FALSE]
Dot(c) == [t |-> "dot", v |-> "", cap |-> c]
Dig(c) == [t |-> "dig", v |-> "", cap |-> c]

RECURSIVE DigitRun(_, _)
DigitRun(s, pos) ==
  IF pos <= Len(s) /\ IsDigit(Char(s, pos)) THEN 1 + DigitRun(s, pos + 1) ELSE 0

RECURSIVE MatchFrom(_, _, _, _), Greedy(_, _, _, _, _)
MatchFrom(pat, i, s, pos) ==
  IF i > Len(pat) THEN Some(<<>>)
  ELSE LET e == pat[i] IN
       IF e.t = "lit"
       THEN IF pos + Len(e.v) - 1 <= Len(s) /\ SubSeq(s, pos, pos + Len(e.v) - 1) = e.v
            THEN MatchFrom(pat, i + 1, s, pos + Len(e.v))
            ELSE None
       ELSE Greedy(pat, i, s, pos,
                   IF e.t = "dig" THEN DigitRun(s, pos) ELSE Len(s) - pos + 1)

\* The quantifier pat[i] at pos, which may take at most n characters: the longest
\* run after which the rest of the pattern matches.
Greedy(pat, i, s, pos, n) ==
  LET fits == {k \in 1..n : MatchFrom(pat, i + 1, s, pos + k) # None} IN
  IF fits = {} THEN None
  ELSE LET k == CHOOSE m \in fits : \A j \in fits : j <= m
           r == MatchFrom(pat, i + 1, s, pos + k)
       IN Some(IF pat[i].cap THEN <<SubSeq(s, pos, pos + k - 1)>> \o r[1] ELSE r[1])

Match(pat, s) == MatchFrom(pat, 1, s, 1)

\* r'Test Suite \'(.+)\' started'
SuitePat == <<Lit("Test Suite '"), Dot(TRUE), Lit("' started")>>
\* r'Test Case \'-\[(.+) (.+)\]\' started'
TestPat == <<Lit("Test Case '-["), Dot(TRUE), Lit(" "), Dot(TRUE), Lit("]' started")>>
\* r'Test Case .+ passed \((.+) seconds\)'
PassedPat == <<Lit("Test Case "), Dot(FALSE), Lit(" passed ("), Dot(TRUE), Lit(" seconds)")>>
\* r'Test Case .+ failed \((.+) seconds\)'
FailedPat == <<Lit("Test Case "), Dot(FALSE), Lit(" failed ("), Dot(TRUE), Lit(" seconds)")>>
\* r'(.+):(\d+): error: (.+) : (.+)'
ErrorPat == <<Dot(TRUE), Lit(":"), Dig(TRUE), Lit(": error: "), Dot(TRUE), Lit(" : "), Dot(TRUE)>>
\* r'Test .+ skipped'
SkipPat == <<Lit("Test "), Dot(FALSE), Lit(" skipped")>>

(***************************************************************************)
(* Numbers.  A Python number is [kind, num, den]: kind "int" or "float"    *)
(* with the exact decimal value num/den (den a power of ten, lowest        *)
(* terms), or kind "nan", "inf", "ninf".  ValueError is what float()       *)
(* raises.  Binary rounding of doubles is not represented.                 *)
(***************************************************************************)
Number(k, n, d) == [kind |-> k, num |-> n, den |-> d]
IntZero == Number("int", 0, 1)
NaN == Number("nan", 0, 1)
Inf == Number("inf", 0, 1)
NegInf == Number("ninf", 0, 1)
ValueError == Number("ValueError", 0, 1)

RECURSIVE Normalize(_, _, _)
Normalize(k, n, d) ==
  IF d > 1 /\ n % 10 = 0 THEN Normalize(k, n \div 10, d \div 10) ELSE Number(k, n, d)

IsSpace(c) == c \in {" ", "\t", "\n", "\r", "\f"}

RECURSIVE LStrip(_)
LStrip(s) == IF Len(s) > 0 /\ IsSpace(Char(s, 1)) THEN LStrip(SubSeq(s, 2, Len(s))) ELSE s

RECURSIVE RStrip(_)
RStrip(s) ==
  IF Len(s) > 0 /\ IsSpace(Char(s, Len(s))) THEN RStrip(SubSeq(s, 1, Len(s) - 1)) ELSE s

\* str.strip()
StripOf(s) == RStrip(LStrip(s))

LowerChar(c) ==
  CASE c = "A" -> "a" [] c = "F" -> "f" [] c = "I" -> "i" [] c = "N" -> "n"
    [] c = "T" -> "t" [] c = "Y" -> "y" [] OTHER -> c

RECURSIVE Lower(_)
Lower(s) == IF Len(s) = 0 THEN "" ELSE LowerChar(Char(s, 1)) \o Lower(SubSeq(s, 2, Len(s)))

\* digitpart ::= digit (["_"] digit)*, read from pos; cnt digits with value val.
RECURSIVE ScanDigits(_, _, _, _)
ScanDigits(s, pos, acc, cnt) ==
  IF pos <= Len(s) /\ IsDigit(Char(s, pos))
  THEN ScanDigits(s, pos + 1, acc * 10 + DigitVal(Char(s, pos)), cnt + 1)
  ELSE IF cnt > 0 /\ pos + 1 <= Len(s) /\ Char(s, pos) = "_" /\ IsDigit(Char(s, pos + 1))
       THEN ScanDigits(s, pos + 1, acc, cnt)
       ELSE [pos |-> pos, val |-> acc, cnt |-> cnt]

\* The unsigned decimal literal b: [digitpart] ["." [digitpart]] [("e"|"E") [sign] digitpart]
FloatBody(b, neg) ==
  LET ip == ScanDigits(b, 1, 0, 0)
      hasdot == ip.pos <= Len(b) /\ Char(b, ip.pos) = "."
      fp == IF hasdot THEN ScanDigits(b, ip.pos + 1, 0, 0)
                      ELSE [pos |-> ip.pos, val |-> 0, cnt |-> 0]
      hasexp == fp.pos <= Len(b) /\ Char(b, fp.pos) \in {"e", "E"}
      esign == hasexp /\ fp.pos + 1 <= Len(b) /\ Char(b, fp.pos + 1) \in {"+", "-"}
      eneg == esign /\ Char(b, fp.pos + 1) = "-"
      ep == IF hasexp THEN ScanDigits(b, fp.pos + (IF esign THEN 2 ELSE 1), 0, 0)
                      ELSE [pos |-> fp.pos, val |-> 0, cnt |-> 0]
      mant == ip.val * Pow10(fp.cnt) + fp.val
      num == IF eneg THEN mant ELSE mant * Pow10(ep.val)
      den == IF eneg THEN Pow10(fp.cnt + ep.val) ELSE Pow10(fp.cnt)
  IN IF /\ ip.cnt + fp.cnt >= 1
        /\ hasexp => ep.cnt >= 1
        /\ ep.pos = Len(b) + 1
     THEN Normalize("float", IF neg THEN 0 - num ELSE num, den)
     ELSE ValueError

\* float(s) for a str s
ParseFloat(s) ==
  LET t == StripOf(s)
      signed == Len(t) > 0 /\ Char(t, 1) \in {"+", "-"}
      neg == signed /\ Char(t, 1) = "-"
      b == IF signed THEN SubSeq(t, 2, Len(t)) ELSE t
  IN IF Lower(b) = "nan" THEN NaN
     ELSE IF Lower(b) \in {"inf", "infinity"} THEN (IF neg THEN NegInf ELSE Inf)
     ELSE FloatBody(b, neg)

(***************************************************************************)
(* The stdin of one run is drawn line by line from RawLines: well-formed   *)
(* runner lines, lines with odd seconds payloads, log noise, and lines     *)
(* that match more than one pattern.                                       *)
(***************************************************************************)
RawLines ==
  { "Test Suite 'S' started",
    "  Test Suite 'T' started ",
    "Test Case '-[A t1]' started",
    "Test Case '-[B t2]' started",
    "Test Case '-[A t1]' passed (0.01 seconds)",
    "Test Case '-[A t1]' passed (-1 seconds)",
    "Test Case '-[A t1]' failed (0.02 seconds)",
    "Test Case '-[A t1]' failed (abc seconds)",
    "Test Case '-[A t1]' passed (1,5 seconds)",
    "f.swift:10: error: -[A t1] : boom",
    "g.swift:7: error: -[A t1] : bang",
    "Test Case '-[A t1]' skipped (0.0 seconds)",
    "Build complete!",
    "",
    "Test Case '-[A t1]' passed (1 seconds):3: error: x : y skipped",
    "Test Case '-[A t1]' started passed (2 seconds)" }

StripCache == [raw \in RawLines |-> StripOf(raw)]

Strip(s) == IF s \in DOMAIN StripCache THEN StripCache[s] ELSE StripOf(s)

Lines == {Strip(raw) : raw \in RawLines}

Patterns == {SuitePat, TestPat, PassedPat, FailedPat, ErrorPat, SkipPat}

(***************************************************************************)
(* The matcher and float() are evaluated once for the lines of the input   *)
(* alphabet; re_match and Float look the result up and fall back to the    *)
(* evaluation for any other argument.                                      *)
(***************************************************************************)
MatchCache == [x \in Patterns \X Lines |-> Match(x[1], x[2])]

re_match(pat, s) ==
  IF <<pat, s>> \in DOMAIN MatchCache THEN MatchCache[<<pat, s>>] ELSE Match(pat, s)

Payloads ==
  {MatchCache[x][1][1] : x \in {y \in {PassedPat, FailedPat} \X Lines : MatchCache[y] # None}}

FloatCache == [s \in Payloads |-> ParseFloat(s)]

Float(s) == IF s \in DOMAIN FloatCache THEN FloatCache[s] ELSE ParseFloat(s)

\* datetime.now() at construction
StartTimes == {"2025-01-01T10:00:00", "2025-01-01T10:00:00.500000"}

VARIABLES
  pc,            \* main(): "reading" stdin, "done", or "error" (uncaught exception)
  start_time,    \* self.start_time
  current_suite, \* self.current_suite: None or Some(name)
  current_test,  \* self.current_test: None or Some(dict)
  test_results,  \* self.test_results
  output_file,   \* content of args.output: None until written
  stdout,        \* lines printed by main()
  nlines,        \* number of lines read from stdin
  line,          \* the stripped line last passed to parse_line
  terminals,     \* history: passed/failed/skipped events that arrived while a case was open
  details,       \* history: ErrorDetail lines read while the case started last was open
  cur_id,        \* history: line number of the CaseStarted that opened the open case
  ids,           \* history: for each finalized record, the line number of its CaseStarted
  discarded,     \* history: line numbers of CaseStarted whose case was replaced while open
  collab_pc,     \* a collaborator script: "idle" before it runs, "exited" after
  script,        \* the collaborator script that ran, "none" before
  json_file,     \* content of the JSON file the script reads: None if there is no file
  collab_stdout, \* lines the script printed on stdout
  collab_stderr, \* lines of the traceback of an uncaught exception
  findings_file, \* content of sonarcloud-findings.txt: None if never opened
  exit_status,   \* exit status of the script: None before it exits
  raised,        \* history: the exception raised while the script ran, None if none
  replay_input,  \* two runs on one input: the lines on stdin of the current run
  replay_phase,  \* 0 outside such a pair of runs, else 1 (first run) or 2 (second run)
  replay_saved   \* the outcome of the first run, None before it ended

parser == <<current_suite, current_test, test_results>>
history == <<nlines, line, terminals, details, cur_id, ids, discarded>>
collab == <<collab_pc, script, json_file, collab_stdout, collab_stderr, findings_file,
            exit_status, raised>>
replay == <<replay_input, replay_phase, replay_saved>>
vars == <<pc, start_time, current_suite, current_test, test_results, output_file, stdout,
          nlines, line, terminals, details, cur_id, ids, discarded, collab, replay>>

\* No collaborator script has run.
CollabIdle ==
  /\ collab_pc = "idle"
  /\ script = "none"
  /\ json_file = None
  /\ collab_stdout = <<>>
  /\ collab_stderr = <<>>
  /\ findings_file = None
  /\ exit_status = None
  /\ raised = None

\* A single run of the converter.
ReplayOff ==
  /\ replay_input = <<>>
  /\ replay_phase = 0
  /\ replay_saved = None

\* SwiftTestParser.__init__ and the start of main()
Init ==
  /\ pc = "reading"
  /\ start_time \in StartTimes
  /\ current_suite = None
  /\ current_test = None
  /\ test_results = <<>>
  /\ output_file = None
  /\ stdout = <<>>
  /\ nlines = 0
  /\ line = ""
  /\ terminals = 0
  /\ details = <<>>
  /\ cur_id = None
  /\ ids = <<>>
  /\ discarded = {}
  /\ CollabIdle
  /\ ReplayOff

\* The dict literal built on a case start.
NewTest(classname, name) ==
  [classname |-> classname, name |-> name, time |-> IntZero, status |-> "passed",
   message |-> None, error_type |-> None]

\* A message built from the context group instead of the detail group.
ErrorMessage_Context(g) == g[3] \o " at " \o g[1] \o ":" \o g[2]

\* f"{group(4)} at {group(1)}:{group(2)}"
ErrorMessage(g) == g[4] \o " at " \o g[1] \o ":" \o g[2]

\* A finalization that inserts the record at the front of the results.
Finalize_Prepend(test) ==
  /\ test_results' = <<test>> \o test_results
  /\ current_test' = None
  /\ UNCHANGED current_suite
  /\ pc' = pc

\* self.test_results.append(self.current_test); self.current_test = None; return
Finalize(test) ==
  /\ test_results' = Append(test_results, test)
  /\ current_test' = None
  /\ UNCHANGED current_suite
  /\ pc' = pc

\* A raise that also drops the open case.
Raise_ClearsCase ==
  /\ pc' = "error"
  /\ current_test' = None
  /\ UNCHANGED <<current_suite, test_results>>

\* An uncaught exception leaves the parser as it was and ends main().
Raise ==
  /\ pc' = "error"
  /\ UNCHANGED parser

\* A suite start that also drops the open case.
SuiteStarted_ClearsCase(g) ==
  /\ current_suite' = Some(g[1])
  /\ current_test' = None
  /\ UNCHANGED test_results
  /\ pc' = pc

\* Body of `if suite_match:`; g are the groups of the match.
SuiteStarted(g) ==
  /\ current_suite' = Some(g[1])
  /\ UNCHANGED <<current_test, test_results>>
  /\ pc' = pc

\* A case start that files the case under the current suite when there is one.
CaseStarted_SuiteAsClass(g) ==
  /\ current_test' =
       Some(NewTest(IF current_suite = None THEN g[1] ELSE current_suite[1], g[2]))
  /\ UNCHANGED <<current_suite, test_results>>
  /\ pc' = pc

\* A case start that carries the diagnosis of the case still open over to the new case.
CaseStarted_InheritDiagnosis(g) ==
  /\ current_test' =
       Some(IF current_test = None THEN NewTest(g[1], g[2])
            ELSE [NewTest(g[1], g[2]) EXCEPT !.message = current_test[1].message,
                                             !.error_type = current_test[1].error_type])
  /\ UNCHANGED <<current_suite, test_results>>
  /\ pc' = pc

\* A case start that flushes the case still open into the results.
CaseStarted_Flush(g) ==
  /\ test_results' = test_results \o current_test
  /\ current_test' = Some(NewTest(g[1], g[2]))
  /\ UNCHANGED current_suite
  /\ pc' = pc

\* Body of `if test_match:`
CaseStarted(g) ==
  /\ current_test' = Some(NewTest(g[1], g[2]))
  /\ UNCHANGED <<current_suite, test_results>>
  /\ pc' = pc

\* CasePassed without the assignment of the parsed duration.
CasePassed_NoDuration(g) ==
  LET t == Float(g[1]) IN
  IF t = ValueError THEN Raise
  ELSE Finalize(current_test[1])

\* Body of `if passed_match and self.current_test:`; float() raises before any assignment.
CasePassed(g) ==
  LET t == Float(g[1]) IN
  IF t = ValueError THEN Raise
  ELSE Finalize([current_test[1] EXCEPT !.time = t])

\* A CaseFailed whose duration falls back to 0 when the payload is not a number.
CaseFailed_Fallback(g) ==
  LET t == Float(g[1]) IN
  Finalize([current_test[1] EXCEPT !.time = IF t = ValueError THEN IntZero ELSE t,
                                   !.status = "failed"])

\* Body of `if failed_match and self.current_test:`
CaseFailed(g) ==
  LET t == Float(g[1]) IN
  IF t = ValueError THEN Raise
  ELSE Finalize([current_test[1] EXCEPT !.time = t, !.status = "failed"])

\* ErrorDetail that keeps the first message instead of overwriting it.
ErrorDetail_KeepFirst(g) ==
  /\ current_test' = Some(IF current_test[1].message # None THEN current_test[1]
                          ELSE [current_test[1] EXCEPT
                                   !.error_type = Some("XCTAssertionFailure"),
                                   !.message = Some(ErrorMessage(g))])
  /\ UNCHANGED <<current_suite, test_results>>
  /\ pc' = pc

\* Body of `if error_match and self.current_test:`
ErrorDetail(g) ==
  /\ current_test' = Some([current_test[1] EXCEPT
                              !.error_type = Some("XCTAssertionFailure"),
                              !.message = Some(ErrorMessage(g))])
  /\ UNCHANGED <<current_suite, test_results>>
  /\ pc' = pc

\* Body of `if skip_match and self.current_test:`
CaseSkipped ==
  Finalize([current_test[1] EXCEPT !.status = "skipped"])

\* A fall-through that resets the open case.
NoMatch_ClearsCase ==
  /\ current_test' = None
  /\ UNCHANGED <<current_suite, test_results>>
  /\ pc' = pc

\* No branch taken: parse_line falls off its end and returns None.
NoMatch ==
  /\ UNCHANGED parser
  /\ pc' = pc

\* parse_line with the skip pattern tried before the passed pattern.
parse_line_SkipFirst(l) ==
  LET suite_match == re_match(SuitePat, l)
      test_match == re_match(TestPat, l)
      passed_match == re_match(PassedPat, l)
      failed_match == re_match(FailedPat, l)
      error_match == re_match(ErrorPat, l)
      skip_match == re_match(SkipPat, l)
  IN
  IF suite_match # None THEN SuiteStarted(suite_match[1])
  ELSE IF test_match # None THEN CaseStarted(test_match[1])
  ELSE IF skip_match # None /\ current_test # None THEN CaseSkipped
  ELSE IF passed_match # None /\ current_test # None THEN CasePassed(passed_match[1])
  ELSE IF failed_match # None /\ current_test # None THEN CaseFailed(failed_match[1])
  ELSE IF error_match # None /\ current_test # None THEN ErrorDetail(error_match[1])
  ELSE NoMatch

\* parse_line without `and self.current_test` on the terminal branches: subscripting
\* None raises TypeError.
parse_line_NoOpenCheck(l) ==
  LET suite_match == re_match(SuitePat, l)
      test_match == re_match(TestPat, l)
      passed_match == re_match(PassedPat, l)
      failed_match == re_match(FailedPat, l)
      error_match == re_match(ErrorPat, l)
      skip_match == re_match(SkipPat, l)
  IN
  IF suite_match # None THEN SuiteStarted(suite_match[1])
  ELSE IF test_match # None THEN CaseStarted(test_match[1])
  ELSE IF passed_match # None
  THEN (IF current_test # None THEN CasePassed(passed_match[1]) ELSE Raise)
  ELSE IF failed_match # None
  THEN (IF current_test # None THEN CaseFailed(failed_match[1]) ELSE Raise)
  ELSE IF error_match # None /\ current_test # None THEN ErrorDetail(error_match[1])
  ELSE IF skip_match # None
  THEN (IF current_test # None THEN CaseSkipped ELSE Raise)
  ELSE NoMatch

(***************************************************************************)
(* SwiftTestParser.parse_line(l).  The branches are tried in the order of  *)
(* the code; a branch whose pattern matches but whose `and                 *)
(* self.current_test` is false falls through to the next pattern.          *)
(***************************************************************************)
parse_line(l) ==
  LET suite_match == re_match(SuitePat, l)
      test_match == re_match(TestPat, l)
      passed_match == re_match(PassedPat, l)
      failed_match == re_match(FailedPat, l)
      error_match == re_match(ErrorPat, l)
      skip_match == re_match(SkipPat, l)
  IN
  IF suite_match # None THEN SuiteStarted(suite_match[1])
  ELSE IF test_match # None THEN CaseStarted(test_match[1])
  ELSE IF passed_match # None /\ current_test # None THEN CasePassed(passed_match[1])
  ELSE IF failed_match # None /\ current_test # None THEN CaseFailed(failed_match[1])
  ELSE IF error_match # None /\ current_test # None THEN ErrorDetail(error_match[1])
  ELSE IF skip_match # None /\ current_test # None THEN CaseSkipped
  ELSE NoMatch

(***************************************************************************)
(* The event a line stands for: the first pattern, in the order parse_line *)
(* tries them, that matches it.                                            *)
(***************************************************************************)
EventOf(l) ==
  IF re_match(SuitePat, l) # None THEN "SuiteStarted"
  ELSE IF re_match(TestPat, l) # None THEN "CaseStarted"
  ELSE IF re_match(PassedPat, l) # None THEN "CasePassed"
  ELSE IF re_match(FailedPat, l) # None THEN "CaseFailed"
  ELSE IF re_match(ErrorPat, l) # None THEN "ErrorDetail"
  ELSE IF re_match(SkipPat, l) # None THEN "CaseSkipped"
  ELSE "Unrecognized"

EventCache == [l \in Lines |-> EventOf(l)]

Event(l) == IF l \in DOMAIN EventCache THEN EventCache[l] ELSE EventOf(l)

\* The seconds payload of a CasePassed or CaseFailed line, as text.
Seconds(l) ==
  IF Event(l) = "CasePassed" THEN re_match(PassedPat, l)[1][1]
  ELSE re_match(FailedPat, l)[1][1]

\* CasePassed(s) and CaseFailed(s) carry a number s: the payload is one float() accepts.
Numeric(l) == Event(l) \in {"CasePassed", "CaseFailed"} /\ Float(Seconds(l)) # ValueError

\* A terminal event: CasePassed(s), CaseFailed(s) or CaseSkipped.
Terminal(l) == Event(l) = "CaseSkipped" \/ Numeric(l)

(***************************************************************************)
(* generate_junit_xml.  The document is the element tree that is           *)
(* serialized: an element is [tag, attrib, text, children].                *)
(***************************************************************************)
\* str(n) for an int n >= 0
RECURSIVE Str(_)
Str(n) == IF n < 10 THEN DigitChar(n) ELSE Str(n \div 10) \o DigitChar(n % 10)

\* int(s) for a string of decimal digits
RECURSIVE Int_(_)
Int_(s) ==
  IF Len(s) = 0 THEN 0
  ELSE 10 * Int_(SubSeq(s, 1, Len(s) - 1)) + DigitVal(Char(s, Len(s)))

Max(a, b) == IF a >= b THEN a ELSE b

\* a + b on Python numbers
Add(a, b) ==
  IF a.kind = "nan" \/ b.kind = "nan" THEN NaN
  ELSE IF a.kind = "inf" \/ b.kind = "inf"
       THEN (IF a.kind = "ninf" \/ b.kind = "ninf" THEN NaN ELSE Inf)
  ELSE IF a.kind = "ninf" \/ b.kind = "ninf" THEN NegInf
  ELSE LET d == Max(a.den, b.den) IN
       Normalize(IF a.kind = "int" /\ b.kind = "int" THEN "int" ELSE "float",
                 a.num * (d \div a.den) + b.num * (d \div b.den), d)

\* sum(t['time'] for t in tests)
RECURSIVE SumTime(_)
SumTime(tests) ==
  IF tests = <<>> THEN IntZero
  ELSE Add(SumTime(SubSeq(tests, 1, Len(tests) - 1)), tests[Len(tests)].time)

\* A count of every record whose status is not passed.
CountStatus_NotPassed(tests, status) ==
  Cardinality({i \in 1..Len(tests) : tests[i].status # "passed"})

\* sum(1 for t in tests if t['status'] == status)
CountStatus(tests, status) ==
  Cardinality({i \in 1..Len(tests) : tests[i].status = status})

\* The position of classname among the keys of suites, 0 if absent.
KeyIndex(suites, classname) ==
  IF \E i \in 1..Len(suites) : suites[i].classname = classname
  THEN CHOOSE i \in 1..Len(suites) : suites[i].classname = classname
  ELSE 0

\* A grouping of runs of adjacent records only: a new group whenever the classname
\* differs from that of the record before.
RECURSIVE GroupByClassname_Adjacent(_)
GroupByClassname_Adjacent(tests) ==
  IF tests = <<>> THEN <<>>
  ELSE LET suites == GroupByClassname_Adjacent(SubSeq(tests, 1, Len(tests) - 1))
           test == tests[Len(tests)]
           k == Len(suites)
       IN IF k = 0 \/ suites[k].classname # test.classname
          THEN Append(suites, [classname |-> test.classname, tests |-> <<test>>])
          ELSE [suites EXCEPT ![k].tests = Append(@, test)]

\* A grouping that overwrites the list of a known suite instead of appending to it.
RECURSIVE GroupByClassname_Overwrite(_)
GroupByClassname_Overwrite(tests) ==
  IF tests = <<>> THEN <<>>
  ELSE LET suites == GroupByClassname_Overwrite(SubSeq(tests, 1, Len(tests) - 1))
           test == tests[Len(tests)]
           k == KeyIndex(suites, test.classname)
       IN IF k = 0
          THEN Append(suites, [classname |-> test.classname, tests |-> <<test>>])
          ELSE [suites EXCEPT ![k].tests = <<test>>]

\* The dict `suites` in insertion order, as a sequence of [classname, tests].
RECURSIVE GroupByClassname(_)
GroupByClassname(tests) ==
  IF tests = <<>> THEN <<>>
  ELSE LET suites == GroupByClassname(SubSeq(tests, 1, Len(tests) - 1))
           test == tests[Len(tests)]
           k == KeyIndex(suites, test.classname)
       IN IF k = 0
          THEN Append(suites, [classname |-> test.classname, tests |-> <<test>>])
          ELSE [suites EXCEPT ![k].tests = Append(@, test)]

Element(tag, attrib, text, children) ==
  [tag |-> tag, attrib |-> attrib, text |-> text, children |-> children]

\* x or default, for an optional string x (a message is never the empty string)
OrDefault(x, default) == IF x # None THEN x[1] ELSE default

\* A testcase element that gets a failure child whenever the record has a message.
TestCaseElement_FailureOnMessage(test) ==
  Element("testcase",
          [classname |-> test.classname, name |-> test.name, time |-> test.time],
          None,
          IF test.status = "failed" \/ test.message # None
          THEN <<Element("failure",
                         [type |-> OrDefault(test.error_type, "TestFailure"),
                          message |-> OrDefault(test.message, "Test failed")],
                         test.message, <<>>)>>
          ELSE IF test.status = "skipped"
          THEN <<Element("skipped", [message |-> "Test skipped"], None, <<>>)>>
          ELSE <<>>)

TestCaseElement(test) ==
  Element("testcase",
          [classname |-> test.classname, name |-> test.name, time |-> test.time],
          None,
          IF test.status = "failed"
          THEN <<Element("failure",
                         [type |-> OrDefault(test.error_type, "TestFailure"),
                          message |-> OrDefault(test.message, "Test failed")],
                         test.message, <<>>)>>
          ELSE IF test.status = "skipped"
          THEN <<Element("skipped", [message |-> "Test skipped"], None, <<>>)>>
          ELSE <<>>)

TestSuiteElement(suite, start) ==
  Element("testsuite",
          [name |-> suite.classname,
           tests |-> Str(Len(suite.tests)),
           failures |-> Str(CountStatus(suite.tests, "failed")),
           errors |-> "0",
           time |-> SumTime(suite.tests),
           timestamp |-> start],
          None,
          [i \in 1..Len(suite.tests) |-> TestCaseElement(suite.tests[i])])

generate_junit_xml(results, start) ==
  LET suites == GroupByClassname(results) IN
  Element("testsuites",
          [name |-> "MagSafeGuard Tests",
           tests |-> Str(Len(results)),
           failures |-> Str(CountStatus(results, "failed")),
           errors |-> "0",
           time |-> SumTime(results),
           timestamp |-> start],
          None,
          [i \in 1..Len(suites) |-> TestSuiteElement(suites[i], start)])

(***************************************************************************)
(* main()                                                                  *)
(***************************************************************************)
\* One iteration of `for line in sys.stdin: test_parser.parse_line(line.strip())`.
ReadLine(raw) ==
  LET l == Strip(raw)
      open == current_test # None
  IN
  /\ pc = "reading"
  /\ nlines < MaxLines
  /\ parse_line(l)
  /\ nlines' = nlines + 1
  /\ line' = l
  /\ terminals' = IF Terminal(l) /\ open THEN terminals + 1 ELSE terminals
  /\ details' = IF Event(l) = "CaseStarted" THEN <<>>
                ELSE IF Event(l) = "ErrorDetail" /\ open THEN Append(details, l)
                ELSE details
  /\ cur_id' = IF Event(l) = "CaseStarted" THEN Some(nlines + 1)
               ELSE IF current_test' = None THEN None
               ELSE cur_id
  /\ ids' = IF Len(test_results') > Len(test_results) THEN ids \o cur_id ELSE ids
  /\ discarded' = IF Event(l) = "CaseStarted" /\ open THEN discarded \cup {cur_id[1]}
                  ELSE discarded
  /\ UNCHANGED <<start_time, output_file, stdout, collab, replay>>

\* An end of input that flushes the case still open into the results.
EndOfInput_Flush ==
  /\ pc = "reading"
  /\ test_results' = test_results \o current_test
  /\ ids' = ids \o cur_id
  /\ LET xml_output == generate_junit_xml(test_results', start_time) IN
     \/ /\ output_file' = Some(xml_output)
        /\ stdout' = << "JUnit XML written",
                        "Total tests: " \o Str(Len(test_results')),
                        "Failures: " \o Str(CountStatus(test_results', "failed")),
                        "Skipped: " \o Str(CountStatus(test_results', "skipped")) >>
        /\ pc' = "done"
     \/ /\ pc' = "error"
        /\ UNCHANGED <<output_file, stdout>>
  /\ UNCHANGED <<start_time, current_suite, current_test,
                 nlines, line, terminals, details, cur_id, discarded, collab, replay>>

\* End of input: build the document, write it to args.output, print the summary.
\* open(args.output, 'w') may fail; the OSError is not caught.
EndOfInput ==
  /\ pc = "reading"
  /\ LET xml_output == generate_junit_xml(test_results, start_time) IN
     \/ /\ output_file' = Some(xml_output)
        /\ stdout' = << "JUnit XML written",
                        "Total tests: " \o Str(Len(test_results)),
                        "Failures: " \o Str(CountStatus(test_results, "failed")),
                        "Skipped: " \o Str(CountStatus(test_results, "skipped")) >>
        /\ pc' = "done"
     \/ /\ pc' = "error"
        /\ UNCHANGED <<output_file, stdout>>
  /\ UNCHANGED <<start_time, parser, history, collab, replay>>

Next ==
  \/ \E raw \in RawLines : ReadLine(raw)
  \/ EndOfInput

Spec == Init /\ [][Next]_vars

(***************************************************************************)
(* generate_junit_xml on its own: the run starts at end of input with      *)
(* test_results drawn from the sequences of at most MaxResults records of  *)
(* the shapes parse_line finalizes.  The history variables are not tracked *)
(* under this specification.                                               *)
(***************************************************************************)
MaxResults == 3

Outcomes ==
  { [status |-> "passed", time |-> Number("float", 1, 100)],
    [status |-> "failed", time |-> Number("float", 2, 100)],
    [status |-> "skipped", time |-> IntZero] }

Diagnostics ==
  { [message |-> None, error_type |-> None],
    [message |-> Some("boom at f.swift:10"), error_type |-> Some("XCTAssertionFailure")] }

FinalizedRecords ==
  { [classname |-> c, name |-> "t1", time |-> o.time, status |-> o.status,
     message |-> d.message, error_type |-> d.error_type] :
      c \in {"A", "B"}, o \in Outcomes, d \in Diagnostics }

InitXml ==
  /\ pc = "reading"
  /\ start_time \in StartTimes
  /\ current_suite = None
  /\ current_test = None
  /\ test_results \in UNION {[1..k -> FinalizedRecords] : k \in 0..MaxResults}
  /\ output_file = None
  /\ stdout = <<>>
  /\ nlines = 0
  /\ line = ""
  /\ terminals = 0
  /\ details = <<>>
  /\ cur_id = None
  /\ ids = <<>>
  /\ discarded = {}
  /\ CollabIdle
  /\ ReplayOff

NextXml == EndOfInput

SpecXml == InitXml /\ [][NextXml]_vars

TypeOK ==
  /\ pc \in {"reading", "done", "error"}
  /\ nlines \in 0..MaxLines
  /\ Len(ids) = Len(test_results)
  /\ (current_test = None) = (cur_id = None)

(***************************************************************************)
(* The collaborator scripts.  A JSON value is a tagged record; t is the    *)
(* name of its Python type.  Each script is one process: it reads one JSON *)
(* file, prints lines, may write sonarcloud-findings.txt, and exits.       *)
(***************************************************************************)
JStr(s) == [t |-> "str", s |-> s]
JInt(n) == [t |-> "int", n |-> n]
JDict(d) == [t |-> "dict", d |-> d]
JList(l) == [t |-> "list", l |-> l]

\* The empty dict {}
EmptyDict == JDict([k \in {} |-> k])

\* A file whose text json.load rejects: an empty file.
Unparsable == [t |-> "invalid", s |-> ""]

\* dict.get(key, default) on a dict v
Get(v, key, default) == IF key \in DOMAIN v.d THEN v.d[key] ELSE default

\* bool(v)
Truthy(v) ==
  CASE v.t = "str" -> v.s # ""
    [] v.t = "int" -> v.n # 0
    [] v.t = "dict" -> DOMAIN v.d # {}
    [] v.t = "list" -> v.l # <<>>

\* str(v) inside an f-string, for the strings and the non-negative ints of the inputs;
\* a container is abbreviated.
FmtValue(v) ==
  CASE v.t = "str" -> v.s
    [] v.t = "int" -> Str(v.n)
    [] v.t = "dict" -> "{...}"
    [] v.t = "list" -> "[...]"

UpperCase == "ABCDEFGHIJKLMNOPQRSTUVWXYZ"
LowerCase == "abcdefghijklmnopqrstuvwxyz"

\* The position of character c in string alphabet, 0 if absent.
IndexIn(alphabet, c) ==
  IF \E i \in 1..Len(alphabet) : Char(alphabet, i) = c
  THEN CHOOSE i \in 1..Len(alphabet) : Char(alphabet, i) = c
  ELSE 0

\* str.lower()
RECURSIVE str_lower(_)
str_lower(s) ==
  IF Len(s) = 0 THEN ""
  ELSE LET c == Char(s, 1)
           k == IndexIn(UpperCase, c)
       IN (IF k = 0 THEN c ELSE Char(LowerCase, k)) \o str_lower(SubSeq(s, 2, Len(s)))

\* sub in s
Contains(sub, s) ==
  \E i \in 1..(Len(s) - Len(sub) + 1) : SubSeq(s, i, i + Len(sub) - 1) = sub

\* s.replace(old, ""), old not empty
RECURSIVE RemoveAll(_, _)
RemoveAll(s, old) ==
  IF Len(s) < Len(old) THEN s
  ELSE IF SubSeq(s, 1, Len(old)) = old THEN RemoveAll(SubSeq(s, Len(old) + 1, Len(s)), old)
  ELSE Char(s, 1) \o RemoveAll(SubSeq(s, 2, Len(s)), old)

\* The characters of the type names of the inputs, in code point order.
CodePointOrder == "0123456789ABCDEFGHIJKLMNOPQRSTUVWXYZ_abcdefghijklmnopqrstuvwxyz"

\* a < b on str
RECURSIVE StrLess(_, _)
StrLess(a, b) ==
  IF Len(b) = 0 THEN FALSE
  ELSE IF Len(a) = 0 THEN TRUE
  ELSE LET x == IndexIn(CodePointOrder, Char(a, 1))
           y == IndexIn(CodePointOrder, Char(b, 1))
       IN IF x # y THEN x < y
          ELSE StrLess(SubSeq(a, 2, Len(a)), SubSeq(b, 2, Len(b)))

\* sorted(keys) for a set of str
RECURSIVE Sorted(_)
Sorted(keys) ==
  IF keys = {} THEN <<>>
  ELSE LET least == CHOOSE k \in keys : \A other \in keys \ {k} : StrLess(k, other)
       IN <<least>> \o Sorted(keys \ {least})

\* An exception, with str(e) as msg.
Exc(type, msg) == [type |-> type, msg |-> msg]

\* Getting attribute attr of a value that has none of that name.
AttrError(v, attr) ==
  Exc("AttributeError", "'" \o v.t \o "' object has no attribute '" \o attr \o "'")

\* The result of an expression: an exception, or a value.
Raised(e) == [exc |-> Some(e), value |-> None]
Returned(v) == [exc |-> None, value |-> Some(v)]

\* with open(path, 'r') as f: json.load(f), for file content f
Load(f, path) ==
  IF f = None
  THEN Raised(Exc("FileNotFoundError",
                  "[Errno 2] No such file or directory: '" \o path \o "'"))
  ELSE IF f[1].t = "invalid"
  THEN Raised(Exc("json.decoder.JSONDecodeError", "Expecting value: line 1 column 1 (char 0)"))
  ELSE Returned(f[1])

\* What a process leaves behind.
Outcome(out, err, findings, status, exc) ==
  [stdout |-> out, stderr |-> err, findings |-> findings, status |-> status, exc |-> exc]

\* An exception nobody catches: the interpreter prints the traceback (its frame lines
\* are left out) and exits with status 1.
Uncaught(out, findings, e) ==
  Outcome(out, <<"Traceback (most recent call last):", e.type \o ": " \o e.msg>>,
          findings, 1, Some(e))

(***************************************************************************)
(* format_swiftlint_sonar.py                                               *)
(***************************************************************************)
\* issues[:50]
IssueCap == 50

\* What dict[:50] raises: TypeError before Python 3.12, KeyError from 3.12 on.
SliceErrors ==
  { Exc("TypeError", "unhashable type: 'slice'"),
    Exc("KeyError", "slice(None, 50, None)") }

\* One iteration of the loop over issues[:50]: the lines it prints.
FormatIssue(issue) ==
  IF issue.t # "dict" THEN Raised(AttrError(issue, "get"))
  ELSE
  LET severity == Get(issue, "severity", JStr("Warning"))
      rule_id == Get(issue, "rule_id", JStr("unknown"))
      file_path == Get(issue, "file", JStr("unknown"))
      line_no == Get(issue, "line", JInt(0))
      reason == Get(issue, "reason", JStr("No description"))
      Block(category, level) ==
        Returned(<< "[" \o category \o "] " \o level \o ": "
                      \o FmtValue(file_path) \o ":" \o FmtValue(line_no),
                    "  Message: " \o FmtValue(reason),
                    "  Rule: " \o FmtValue(rule_id),
                    "" >>)
  IN
  IF severity = JStr("Error") THEN Block("BUG", "BLOCKER")
  ELSE IF rule_id.t # "str" THEN Raised(AttrError(rule_id, "lower"))
  ELSE IF Contains("security", str_lower(rule_id.s)) \/ Contains("auth", str_lower(rule_id.s))
  THEN Block("SECURITY_HOTSPOT", "CRITICAL")
  ELSE Block("CODE_SMELL", "MINOR")

\* for issue in issues: with printed the lines printed so far
RECURSIVE FormatIssues(_, _)
FormatIssues(issues, printed) ==
  IF issues = <<>> THEN [exc |-> None, printed |-> printed]
  ELSE LET r == FormatIssue(Head(issues)) IN
       IF r.exc # None THEN [exc |-> r.exc, printed |-> printed]
       ELSE FormatIssues(Tail(issues), printed \o r.value[1])

\* main() of format_swiftlint_sonar.py on file content f, a list or a dict;
\* slice_error is what slicing a dict raises.  `except Exception` prints and main()
\* returns: the exit status is 0.
format_swiftlint_sonar_main(f, slice_error) ==
  LET loaded == Load(f, ".sonarcloud/swiftlint-output.json")
      Caught(printed, e) ==
        Outcome(Append(printed, "Error processing SwiftLint output: " \o e.msg),
                <<>>, None, 0, Some(e))
  IN
  IF loaded.exc # None THEN Caught(<<>>, loaded.exc[1])
  ELSE
  LET issues == loaded.value[1] IN
  IF ~Truthy(issues) THEN Outcome(<<"No issues found">>, <<>>, None, 0, None)
  ELSE IF issues.t = "dict" THEN Caught(<<>>, slice_error)
  ELSE
  LET n == Len(issues.l)
      r == FormatIssues(SubSeq(issues.l, 1, IF n < IssueCap THEN n ELSE IssueCap), <<>>)
  IN
  IF r.exc # None THEN Caught(r.printed, r.exc[1])
  ELSE Outcome(r.printed \o (IF n > IssueCap
                             THEN <<"", "... and " \o Str(n - IssueCap) \o " more issues">>
                             ELSE <<>>),
               <<>>, None, 0, None)

(***************************************************************************)
(* process_sonarcloud_issues.py, run without arguments                     *)
(***************************************************************************)
ReportPath == ".sonarcloud"
ProjectKey == "lekman_magsafe-buskill"
SeverityOrder == <<"BLOCKER", "CRITICAL", "MAJOR", "MINOR", "INFO">>

\* "=" * 50
Rule == "=================================================="

\* datetime.now().strftime("%Y-%m-%d %H:%M:%S")
Now == {"2025-01-01 10:00:00", "2025-01-01 10:00:01"}

\* The grouping loop: the first exception it raises, None if it raises none.
RECURSIVE GroupError(_)
GroupError(issues) ==
  IF issues = <<>> THEN None
  ELSE LET issue == Head(issues) IN
       IF issue.t # "dict" THEN Some(AttrError(issue, "get"))
       ELSE LET severity == Get(issue, "severity", JStr("UNKNOWN")) IN
            IF severity.t \in {"dict", "list"}
            THEN Some(Exc("TypeError", "unhashable type: '" \o severity.t \o "'"))
            ELSE GroupError(Tail(issues))

\* by_severity[severity]
BySeverity(issues, severity) ==
  LET Has(issue) == Get(issue, "severity", JStr("UNKNOWN")) = JStr(severity)
  IN SelectSeq(issues, Has)

\* The lines written for one issue.
WriteIssue(issue) ==
  LET component == Get(issue, "component", JStr("unknown"))
      textRange == Get(issue, "textRange", EmptyDict)
      effort == Get(issue, "effort", JStr(""))
      status == Get(issue, "status", JStr("OPEN"))
  IN
  IF component.t # "str" THEN Raised(AttrError(component, "replace"))
  ELSE IF textRange.t # "dict" THEN Raised(AttrError(textRange, "get"))
  ELSE Returned(
         << "[" \o FmtValue(Get(issue, "type", JStr("UNKNOWN"))) \o "] "
              \o RemoveAll(component.s, ProjectKey \o ":") \o ":"
              \o FmtValue(Get(textRange, "startLine", JInt(0))),
            "  Rule: " \o FmtValue(Get(issue, "rule", JStr("unknown"))),
            "  Message: " \o FmtValue(Get(issue, "message", JStr("No message"))) >>
         \o (IF Truthy(effort) THEN <<"  Effort: " \o FmtValue(effort)>> ELSE <<>>)
         \o (IF status # JStr("OPEN") THEN <<"  Status: " \o FmtValue(status)>> ELSE <<>>)
         \o <<"">>)

\* for issue in by_severity[severity]: with written the lines written so far
RECURSIVE WriteIssues(_, _)
WriteIssues(issues, written) ==
  IF issues = <<>> THEN [exc |-> None, written |-> written]
  ELSE LET r == WriteIssue(Head(issues)) IN
       IF r.exc # None THEN [exc |-> r.exc, written |-> written]
       ELSE WriteIssues(Tail(issues), written \o r.value[1])

\* for severity in [...]: from the k-th severity on, with written the lines so far
RECURSIVE WriteSeverities(_, _, _)
WriteSeverities(issues, k, written) ==
  IF k > Len(SeverityOrder) THEN [exc |-> None, written |-> written]
  ELSE LET group == BySeverity(issues, SeverityOrder[k]) IN
       IF group = <<>> THEN WriteSeverities(issues, k + 1, written)
       ELSE LET r == WriteIssues(group,
                                 written \o << "", Rule,
                                               SeverityOrder[k] \o " ISSUES ("
                                                 \o Str(Len(group)) \o ")",
                                               Rule, "" >>)
            IN IF r.exc # None THEN r ELSE WriteSeverities(issues, k + 1, r.written)

\* main() of process_sonarcloud_issues.py on file content f, at time now.  The report
\* file is closed, with what was written, when an exception leaves the `with` block.
\* The emoji that starts the line printed on success is left out.
process_sonarcloud_issues_main(f, now) ==
  LET loaded == Load(f, ReportPath \o "/sonarcloud-issues.json")
      Caught(findings, e) ==
        Outcome(<<"Error processing SonarCloud response: " \o e.msg>>, <<>>, findings, 1,
                Some(e))
  IN
  IF loaded.exc # None THEN Caught(None, loaded.exc[1])
  ELSE
  LET data == loaded.value[1] IN
  IF data.t # "dict" THEN Caught(None, AttrError(data, "get"))
  ELSE
  LET issues == Get(data, "issues", JList(<<>>)).l
      header == << "=== SonarCloud Findings Report ===",
                   "Generated: " \o now,
                   "Project: " \o ProjectKey,
                   "Total issues: " \o Str(Len(issues)),
                   "" >>
      group_error == GroupError(issues)
      r == WriteSeverities(issues, 1, header)
  IN
  IF group_error # None THEN Caught(Some(header), group_error[1])
  ELSE IF r.exc # None THEN Caught(Some(r.written), r.exc[1])
  ELSE Outcome(<<"Successfully processed " \o Str(Len(issues)) \o " issues">>, <<>>,
               Some(r.written), 0, None)

(***************************************************************************)
(* sonarcloud_summary.py, run without arguments.  main() has no try.       *)
(***************************************************************************)
\* The counting loop: the first exception it raises, None if it raises none.
RECURSIVE CountError(_)
CountError(issues) ==
  IF issues = <<>> THEN None
  ELSE LET issue == Head(issues) IN
       IF issue.t # "dict" THEN Some(AttrError(issue, "get"))
       ELSE LET issue_type == Get(issue, "type", JStr("UNKNOWN"))
                severity == Get(issue, "severity", JStr("UNKNOWN"))
            IN IF issue_type.t \in {"dict", "list"}
               THEN Some(Exc("TypeError", "unhashable type: '" \o issue_type.t \o "'"))
               ELSE IF severity.t \in {"dict", "list"}
               THEN Some(Exc("TypeError", "unhashable type: '" \o severity.t \o "'"))
               ELSE CountError(Tail(issues))

\* types[t] and severities[s] after the loop, for str keys
CountOf(issues, key, value) ==
  LET Has(issue) == Get(issue, key, JStr("UNKNOWN")) = JStr(value)
  IN Len(SelectSeq(issues, Has))

\* The keys of types, all of them str in the inputs.
TypeKeys(issues) == {Get(issues[i], "type", JStr("UNKNOWN")).s : i \in 1..Len(issues)}

\* main() of sonarcloud_summary.py on file content f
sonarcloud_summary_main(f) ==
  LET loaded == Load(f, ReportPath \o "/sonarcloud-issues.json") IN
  IF loaded.exc # None THEN Uncaught(<<>>, None, loaded.exc[1])
  ELSE
  LET data == loaded.value[1] IN
  IF data.t # "dict" THEN Uncaught(<<>>, None, AttrError(data, "get"))
  ELSE
  LET issues == Get(data, "issues", JList(<<>>)).l
      count_error == CountError(issues)
      types == Sorted(TypeKeys(issues))
      present == SelectSeq(SeverityOrder, LAMBDA sv : CountOf(issues, "severity", sv) > 0)
  IN
  IF count_error # None THEN Uncaught(<<>>, None, count_error[1])
  ELSE Outcome(<<"By Type:">>
                 \o [i \in 1..Len(types) |->
                       "  - " \o types[i] \o ": " \o Str(CountOf(issues, "type", types[i]))]
                 \o <<"", "By Severity:">>
                 \o [i \in 1..Len(present) |->
                       "  - " \o present[i] \o ": "
                         \o Str(CountOf(issues, "severity", present[i]))],
               <<>>, None, 0, None)

(***************************************************************************)
(* One run of one collaborator script on one JSON file.                    *)
(***************************************************************************)
MaxEntries == 2

\* Entries of the issues list: not a dict; SwiftLint issues, the last with a rule_id
\* that is no string; SonarCloud issues, the last with a component that is no string.
Entries ==
  { JStr("oops"),
    JDict([severity |-> JStr("Error"), rule_id |-> JStr("force_cast"),
           file |-> JStr("A.swift"), line |-> JInt(3), reason |-> JStr("Avoid force casts")]),
    JDict([rule_id |-> JStr("Auth_token"), file |-> JStr("B.swift"), line |-> JInt(9)]),
    JDict([severity |-> JStr("Warning"), rule_id |-> JInt(7)]),
    JDict([severity |-> JStr("MAJOR"), type |-> JStr("BUG"),
           component |-> JStr("lekman_magsafe-buskill:A.swift"),
           textRange |-> JDict([startLine |-> JInt(12)]),
           rule |-> JStr("swift:S1135"), message |-> JStr("Fix this"),
           effort |-> JStr("5min"), status |-> JStr("CONFIRMED")]),
    JDict([severity |-> JStr("BLOCKER"), type |-> JStr("CODE_SMELL"),
           component |-> JInt(5)]) }

IssueLists == UNION {[1..k -> Entries] : k \in 0..MaxEntries}

\* No file, an empty file, {}, a list of entries, or {"issues": a list of entries}.
JsonFiles ==
  {None, Some(Unparsable), Some(EmptyDict)}
    \cup {Some(JList(l)) : l \in IssueLists}
    \cup {Some(JDict([issues |-> JList(l)])) : l \in IssueLists}

InitCollab ==
  /\ pc = "reading"
  /\ start_time \in StartTimes
  /\ current_suite = None
  /\ current_test = None
  /\ test_results = <<>>
  /\ output_file = None
  /\ stdout = <<>>
  /\ nlines = 0
  /\ line = ""
  /\ terminals = 0
  /\ details = <<>>
  /\ cur_id = None
  /\ ids = <<>>
  /\ discarded = {}
  /\ collab_pc = "idle"
  /\ script = "none"
  /\ json_file \in JsonFiles
  /\ collab_stdout = <<>>
  /\ collab_stderr = <<>>
  /\ findings_file = None
  /\ exit_status = None
  /\ raised = None
  /\ ReplayOff

\* The process of script name runs to its exit and leaves outcome r.
Exit(name, r) ==
  /\ collab_pc = "idle"
  /\ collab_pc' = "exited"
  /\ script' = name
  /\ collab_stdout' = r.stdout
  /\ collab_stderr' = r.stderr
  /\ findings_file' = r.findings
  /\ exit_status' = Some(r.status)
  /\ raised' = r.exc
  /\ UNCHANGED <<json_file, pc, start_time, parser, output_file, stdout, history, replay>>

format_swiftlint_sonar ==
  \E e \in SliceErrors : Exit("format_swiftlint_sonar", format_swiftlint_sonar_main(json_file, e))

process_sonarcloud_issues ==
  \E now \in Now : Exit("process_sonarcloud_issues", process_sonarcloud_issues_main(json_file, now))

sonarcloud_summary ==
  Exit("sonarcloud_summary", sonarcloud_summary_main(json_file))

NextCollab ==
  \/ format_swiftlint_sonar
  \/ process_sonarcloud_issues
  \/ sonarcloud_summary

SpecCollab == InitCollab /\ [][NextCollab]_vars

(***************************************************************************)
(* Two runs of the converter, one after the other, started at the same     *)
(* time: the first on an input of at most MaxReplay lines, the second on   *)
(* that input without its SuiteStarted lines, writing to another file.     *)
(* The outcome of the first run is kept in replay_saved.                   *)
(***************************************************************************)
MaxReplay == 3

ReplayLines ==
  { "Test Suite 'S' started",
    "  Test Suite 'T' started ",
    "Test Case '-[A t1]' started",
    "Test Case '-[B t2]' started",
    "Test Case '-[A t1]' passed (0.01 seconds)",
    "f.swift:10: error: -[A t1] : boom",
    "Test Case '-[A t1]' skipped (0.0 seconds)" }

\* The input without the lines that parse_line takes for a suite start.
WithoutSuiteLines(input) ==
  LET Kept(raw) == Event(Strip(raw)) # "SuiteStarted" IN SelectSeq(input, Kept)

InitReplay ==
  /\ pc = "reading"
  /\ start_time \in StartTimes
  /\ current_suite = None
  /\ current_test = None
  /\ test_results = <<>>
  /\ output_file = None
  /\ stdout = <<>>
  /\ nlines = 0
  /\ line = ""
  /\ terminals = 0
  /\ details = <<>>
  /\ cur_id = None
  /\ ids = <<>>
  /\ discarded = {}
  /\ CollabIdle
  /\ replay_input \in UNION {[1..k -> ReplayLines] : k \in 0..MaxReplay}
  /\ replay_phase = 1
  /\ replay_saved = None

\* The loop of main() reads the next line of the input.
ReplayLine ==
  /\ replay_phase \in {1, 2}
  /\ nlines < Len(replay_input)
  /\ ReadLine(replay_input[nlines + 1])

\* The loop of main() ends when the input is used up.
ReplayEnd ==
  /\ replay_phase \in {1, 2}
  /\ nlines = Len(replay_input)
  /\ EndOfInput

\* The first run is over: its outcome is kept and a new process, with a new parser,
\* starts on the input without its SuiteStarted lines.
SecondRun ==
  /\ replay_phase = 1
  /\ pc \in {"done", "error"}
  /\ replay_saved' = Some([input |-> replay_input,
                           pc |-> pc,
                           current_suite |-> current_suite,
                           test_results |-> test_results,
                           output_file |-> output_file])
  /\ replay_input' = WithoutSuiteLines(replay_input)
  /\ replay_phase' = 2
  /\ pc' = "reading"
  /\ current_suite' = None
  /\ current_test' = None
  /\ test_results' = <<>>
  /\ output_file' = None
  /\ stdout' = <<>>
  /\ nlines' = 0
  /\ line' = ""
  /\ terminals' = 0
  /\ details' = <<>>
  /\ cur_id' = None
  /\ ids' = <<>>
  /\ discarded' = {}
  /\ UNCHANGED <<start_time, collab>>

NextReplay ==
  \/ ReplayLine
  \/ ReplayEnd
  \/ SecondRun

SpecReplay == InitReplay /\ [][NextReplay]_vars

(***************************************************************************)
(* Properties.  A step with nlines' = nlines + 1 is one call of            *)
(* parse_line; line' is the line it was given, line the one before it.     *)
(***************************************************************************)
Step == nlines' = nlines + 1

Last(seq) == seq[Len(seq)]

\* C1: a CaseStarted line followed immediately by a CasePassed(s) line appends exactly
\* one record: the CaseStarted call appends nothing, the CasePassed call appends the
\* record of that case with status passed and duration s, and then no case is open.
C1_StartedThenPassed ==
  [][ /\ (Step /\ Event(line') = "CaseStarted") => test_results' = test_results
      /\ (Step /\ Event(line) = "CaseStarted" /\ Event(line') = "CasePassed" /\ Numeric(line'))
           => LET g == re_match(TestPat, line)[1] IN
              /\ test_results' = Append(test_results,
                    [classname |-> g[1], name |-> g[2], time |-> Float(Seconds(line')),
                     status |-> "passed", message |-> None, error_type |-> None])
              /\ current_test' = None
              /\ pc' = "reading" ]_vars

\* The last line finalized, as passed with duration 0.01, the case the line before opened.
C1_Witness ==
  /\ nlines >= 2
  /\ Event(line) = "CasePassed"
  /\ current_test = None
  /\ test_results # <<>>
  /\ Last(ids) = nlines - 1
  /\ Last(test_results).status = "passed"
  /\ Last(test_results).time = Number("float", 1, 100)

\* C2: a CaseFailed(s) event received while a case is open finalizes that case with
\* status failed, whatever the number of ErrorDetail lines read since its CaseStarted;
\* the record's message is that of the last of them, and None if there was none.
C2_FailedFinalizes ==
  [][ (Step /\ Event(line') = "CaseFailed" /\ Numeric(line') /\ current_test # None)
        => /\ Len(test_results') = Len(test_results) + 1
           /\ SubSeq(test_results', 1, Len(test_results)) = test_results
           /\ Last(test_results').status = "failed"
           /\ Last(test_results').classname = current_test[1].classname
           /\ Last(test_results').name = current_test[1].name
           /\ Last(test_results').message =
                (IF details = <<>> THEN None
                 ELSE LET g == re_match(ErrorPat, Last(details))[1] IN
                      Some(g[4] \o " at " \o g[1] \o ":" \o g[2]))
           /\ current_test' = None ]_vars

\* CaseStarted, two different ErrorDetail lines, CaseFailed: the second message is kept.
C2_Witness ==
  /\ nlines = 4
  /\ Event(line) = "CaseFailed"
  /\ Len(details) = 2
  /\ details[1] # details[2]
  /\ Len(test_results) = 1
  /\ test_results[1].status = "failed"
  /\ test_results[1].message = Some("bang at g.swift:7")

\* C3: a line that matches none of the patterns leaves current_suite, current_test and
\* test_results unchanged and raises nothing.
C3_UnrecognizedIsNoOp ==
  [][ (Step /\ Event(line') = "Unrecognized") => (UNCHANGED parser /\ pc' = "reading") ]_vars

\* An unrecognized line was read while a suite was known and a case was open.
C3_Witness ==
  /\ nlines >= 1
  /\ Event(line) = "Unrecognized"
  /\ current_test # None
  /\ current_suite # None
  /\ pc = "reading"

\* C4: with no case open, CasePassed, CaseFailed, CaseSkipped and ErrorDetail lines
\* (whatever their payload) append nothing, open no case, raise nothing and leave
\* current_suite unchanged.
C4_NoOpenCaseIsNoOp ==
  [][ (/\ Step
       /\ current_test = None
       /\ Event(line') \in {"CasePassed", "CaseFailed", "CaseSkipped", "ErrorDetail"})
        => (UNCHANGED parser /\ pc' = "reading") ]_vars

\* A CaseFailed line with a non-numeric payload was read after the only case had been
\* finalized; had a case been open, float() would have raised.
C4_Witness ==
  /\ nlines = 3
  /\ Event(line) = "CaseFailed"
  /\ ~Numeric(line)
  /\ Len(test_results) = 1
  /\ current_test = None
  /\ pc = "reading"

\* C5: the number of finalized records is the number of terminal events that arrived
\* while a case was open; a case still open (also at end of input) is not among the
\* finalized records; a lone CaseStarted line yields no record.
C5_OnlyTerminalEventsFinalize ==
  /\ Len(test_results) = terminals
  /\ current_test # None => \A i \in 1..Len(ids) : ids[i] # cur_id[1]
  /\ (nlines = 1 /\ Event(line) = "CaseStarted") => test_results = <<>>
  /\ output_file # None => output_file[1].attrib.tests = Str(terminals)

\* The input ended with a case open after another case had been finalized.
C5_Witness ==
  /\ pc = "done"
  /\ current_test # None
  /\ terminals = 1
  /\ Len(test_results) = 1
  /\ output_file # None

\* The sum of the tests attributes of a sequence of testsuite elements.
RECURSIVE SumTests(_)
SumTests(suites) ==
  IF suites = <<>> THEN 0
  ELSE SumTests(SubSeq(suites, 1, Len(suites) - 1)) + Int_(Last(suites).attrib.tests)

\* C6: in the written document the tests attributes of the testsuite elements sum to
\* the tests attribute of the root, and both are the number of finalized records.
C6_SuiteTestsSumToRoot ==
  output_file # None =>
    LET doc == output_file[1] IN
    /\ SumTests(doc.children) = Int_(doc.attrib.tests)
    /\ Int_(doc.attrib.tests) = Len(test_results)

\* A document of two suites, the first holding two records that were not adjacent.
C6_Witness ==
  /\ output_file # None
  /\ Len(test_results) = 3
  /\ Len(output_file[1].children) = 2
  /\ output_file[1].children[1].attrib.tests = "2"
  /\ output_file[1].children[2].attrib.tests = "1"
  /\ test_results[1].classname = test_results[3].classname

\* C7 as stated: an ErrorDetail event with a case open sets failure_kind to
\* "AssertionFailure" and failure_message to "<detail> at <file>:<line>", appends
\* nothing and keeps the case open.
C7_AsStated ==
  [][ (Step /\ Event(line') = "ErrorDetail" /\ current_test # None)
        => LET g == re_match(ErrorPat, line')[1] IN
           /\ current_test' = Some([current_test[1] EXCEPT
                                       !.error_type = Some("AssertionFailure"),
                                       !.message = Some(g[4] \o " at " \o g[1] \o ":" \o g[2])])
           /\ test_results' = test_results ]_vars

\* C7 amended: the kind set is "XCTAssertionFailure"; the message is
\* "<detail> at <file>:<line>", nothing is appended, the case stays open with its other
\* fields, and nothing else changes.
C7_ErrorDetailSetsMessage ==
  [][ (Step /\ Event(line') = "ErrorDetail" /\ current_test # None)
        => LET g == re_match(ErrorPat, line')[1] IN
           /\ current_test' = Some([current_test[1] EXCEPT
                                       !.error_type = Some("XCTAssertionFailure"),
                                       !.message = Some(g[4] \o " at " \o g[1] \o ":" \o g[2])])
           /\ line' = "f.swift:10: error: -[A t1] : boom"
                => current_test'[1].message = Some("boom at f.swift:10")
           /\ test_results' = test_results
           /\ current_suite' = current_suite
           /\ pc' = "reading" ]_vars

\* An ErrorDetail line was just read for the open case B.t2.
C7_Witness ==
  /\ Event(line) = "ErrorDetail"
  /\ details # <<>>
  /\ Last(details) = line
  /\ current_test # None
  /\ current_test[1].classname = "B"
  /\ current_test[1].message = Some("bang at g.swift:7")
  /\ current_test[1].error_type = Some("XCTAssertionFailure")

\* C8: a case replaced by a CaseStarted while open is never among the finalized
\* records; the replacing call appends nothing and opens a fresh case with status
\* passed, duration 0, no message and no kind.
C8_DiscardedNeverFinalized ==
  /\ [](\A i \in 1..Len(ids) : ids[i] \notin discarded)
  /\ [][ (Step /\ Event(line') = "CaseStarted" /\ current_test # None)
           => LET g == re_match(TestPat, line')[1] IN
              /\ test_results' = test_results
              /\ current_test' = Some([classname |-> g[1], name |-> g[2], time |-> IntZero,
                                       status |-> "passed", message |-> None,
                                       error_type |-> None]) ]_vars

\* The case opened at line 1 was replaced at line 2, and the replacing case finalized.
C8_Witness ==
  /\ discarded = {1}
  /\ ids = <<2>>
  /\ Len(test_results) = 1
  /\ current_test = None

\* C9: each step leaves the records already in test_results as they are and adds at
\* most one record, at the end.
C9_ResultsAppendOnly ==
  [][ /\ Len(test_results') \in {Len(test_results), Len(test_results) + 1}
      /\ SubSeq(test_results', 1, Len(test_results)) = test_results ]_vars

\* Two different records were finalized one after the other.
C9_Witness ==
  /\ Len(test_results) = 2
  /\ test_results[1] # test_results[2]
  /\ ids = <<1, 3>>

NonNegative(t) == t.kind \in {"int", "float"} /\ t.num >= 0

\* C10: every record, open or finalized, has a non-negative duration, and the open
\* record's duration is 0.
C10_DurationNonNegative ==
  /\ \A i \in 1..Len(test_results) : NonNegative(test_results[i].time)
  /\ current_test # None => current_test[1].time = IntZero

\* The position at which classname c first occurs in results.
FirstIndex(results, c) ==
  CHOOSE i \in 1..Len(results) :
    /\ results[i].classname = c
    /\ \A j \in 1..(i - 1) : results[j].classname # c

\* The records of results whose classname is c, in the order of results.
RecordsOf(results, c) ==
  LET InSuite(r) == r.classname = c IN SelectSeq(results, InSuite)

\* C11: the testsuite elements are one per classname, in the order in which the
\* classnames first occur in test_results, and the testcase elements of a testsuite
\* are those of the records of that classname, in the order of test_results.
C11_StableGrouping ==
  output_file # None =>
    LET suites == output_file[1].children IN
    /\ \A i, j \in 1..Len(suites) : i # j => suites[i].attrib.name # suites[j].attrib.name
    /\ {suites[i].attrib.name : i \in 1..Len(suites)}
         = {test_results[i].classname : i \in 1..Len(test_results)}
    /\ \A i, j \in 1..Len(suites) :
         i < j => FirstIndex(test_results, suites[i].attrib.name)
                    < FirstIndex(test_results, suites[j].attrib.name)
    /\ \A i \in 1..Len(suites) :
         LET recs == RecordsOf(test_results, suites[i].attrib.name) IN
         /\ Len(suites[i].children) = Len(recs)
         /\ \A k \in 1..Len(recs) :
              /\ suites[i].children[k].attrib.classname = recs[k].classname
              /\ suites[i].children[k].attrib.name = recs[k].name
              /\ suites[i].children[k].attrib.time = recs[k].time
              /\ (suites[i].children[k].children # <<>>) = (recs[k].status # "passed")

\* Records of B, A, B in that order: suite B comes first and holds the first and the
\* third record, which differ, in that order.
C11_Witness ==
  /\ output_file # None
  /\ Len(test_results) = 3
  /\ test_results[1].classname = "B"
  /\ test_results[2].classname = "A"
  /\ test_results[3].classname = "B"
  /\ test_results[1].status = "passed"
  /\ test_results[3].status = "failed"
  /\ Len(output_file[1].children) = 2
  /\ output_file[1].children[1].attrib.name = "B"
  /\ Len(output_file[1].children[1].children) = 2
  /\ output_file[1].children[1].children[2].children # <<>>

\* The testcase elements of a document, in document order.
RECURSIVE TestCases(_)
TestCases(suites) ==
  IF suites = <<>> THEN <<>>
  ELSE TestCases(SubSeq(suites, 1, Len(suites) - 1)) \o Last(suites).children

\* The records in the order in which the document lists their testcase elements.
RECURSIVE RecordsInDocOrder(_, _)
RecordsInDocOrder(results, suites) ==
  IF suites = <<>> THEN <<>>
  ELSE RecordsInDocOrder(results, SubSeq(suites, 1, Len(suites) - 1))
         \o RecordsOf(results, Last(suites).attrib.name)

\* C12: a testcase has exactly one child, a failure with the record's kind and message
\* (or "TestFailure" and "Test failed" when absent), iff the record is failed; exactly
\* one child, a skipped with message "Test skipped", iff it is skipped; and no child
\* when it is passed, whether or not the record has a message.
C12_ChildrenFollowStatus ==
  output_file # None =>
    LET cases == TestCases(output_file[1].children)
        recs == RecordsInDocOrder(test_results, output_file[1].children)
    IN
    /\ Len(cases) = Len(recs)
    /\ \A k \in 1..Len(cases) :
         LET kids == cases[k].children
             r == recs[k]
         IN
         /\ Len(kids) <= 1
         /\ (\E c \in 1..Len(kids) : kids[c].tag = "failure") <=> r.status = "failed"
         /\ (\E c \in 1..Len(kids) : kids[c].tag = "skipped") <=> r.status = "skipped"
         /\ r.status = "passed" => kids = <<>>
         /\ r.status = "failed" =>
              /\ kids[1].attrib.type =
                   (IF r.error_type = None THEN "TestFailure" ELSE r.error_type[1])
              /\ kids[1].attrib.message =
                   (IF r.message = None THEN "Test failed" ELSE r.message[1])
         /\ r.status = "skipped" => kids[1].attrib.message = "Test skipped"

\* A case that read an ErrorDetail line and then passed is in the written document
\* without a child element.
C12_Witness ==
  /\ pc = "done"
  /\ output_file # None
  /\ nlines = 3
  /\ Len(details) = 1
  /\ Len(test_results) = 1
  /\ test_results[1].status = "passed"
  /\ test_results[1].message # None
  /\ output_file[1].children[1].children[1].children = <<>>

\* A CasePassed or CaseFailed line whose payload float() rejects.
NonNumeric(l) == Event(l) \in {"CasePassed", "CaseFailed"} /\ ~Numeric(l)

\* C13 as stated, for every state in which the line arrives: a CasePassed or CaseFailed
\* line with a non-numeric payload ends the run in error and appends nothing.
C13_AsStated ==
  [][ (Step /\ NonNumeric(line')) => (pc' = "error" /\ test_results' = test_results) ]_vars

\* C13: a CasePassed or CaseFailed line with a non-numeric payload that is read while
\* a case is open ends the run in error and appends no record, and a run that ended in
\* error has written no document and no summary.
C13_NonNumericIsFatal ==
  /\ [][ (Step /\ NonNumeric(line') /\ current_test # None)
           => (pc' = "error" /\ test_results' = test_results) ]_vars
  /\ [](pc = "error" => (output_file = None /\ stdout = <<>>))

\* A run that ended on a CaseFailed line with a non-numeric payload read with a case
\* open: nothing was appended and nothing was written.
C13_Witness ==
  /\ pc = "error"
  /\ Event(line) = "CaseFailed"
  /\ NonNumeric(line)
  /\ nlines = 2
  /\ current_test # None
  /\ test_results = <<>>
  /\ output_file = None

\* C20: a CasePassed or CaseFailed line with a non-numeric payload changes no field of
\* the parser: with no case open the run goes on, with a case open the run ends in
\* error and the case stays open as it was.
C20_PayloadParsedOnlyWhenOpen ==
  [][ (Step /\ NonNumeric(line'))
        => /\ UNCHANGED <<current_suite, current_test, test_results, output_file>>
           /\ pc' = IF current_test = None THEN "reading" ELSE "error" ]_vars

\* A case that read an ErrorDetail line is still open, with its status, duration and
\* message, after the CasePassed line with a non-numeric payload that ended the run.
C20_Witness ==
  /\ pc = "error"
  /\ Event(line) = "CasePassed"
  /\ NonNumeric(line)
  /\ nlines = 3
  /\ current_test # None
  /\ current_test[1].status = "passed"
  /\ current_test[1].time = IntZero
  /\ current_test[1].message # None
  /\ test_results = <<>>

\* The number of records of results with the given status.
NumWithStatus(results, status) ==
  Cardinality({i \in 1..Len(results) : results[i].status = status})

\* C15: a CaseSkipped line read while a case is open appends the open record with
\* status skipped and duration 0 and leaves no case open; and in a written document
\* the tests totals count every record, skipped ones included, while the failures
\* totals count the failed records only.
C15_SkippedFinalizes ==
  /\ [][ (Step /\ Event(line') = "CaseSkipped" /\ current_test # None)
           => /\ test_results'
                   = Append(test_results, [current_test[1] EXCEPT !.status = "skipped"])
              /\ Last(test_results').status = "skipped"
              /\ Last(test_results').time = IntZero
              /\ current_test' = None
              /\ pc' = "reading" ]_vars
  /\ [](output_file # None =>
          LET doc == output_file[1] IN
          /\ doc.attrib.tests = Str(Len(test_results))
          /\ doc.attrib.failures = Str(NumWithStatus(test_results, "failed"))
          /\ \A i \in 1..Len(doc.children) :
               LET recs == RecordsOf(test_results, doc.children[i].attrib.name) IN
               /\ doc.children[i].attrib.tests = Str(Len(recs))
               /\ doc.children[i].attrib.failures = Str(NumWithStatus(recs, "failed")))

\* A written document of one suite with a failed and then a skipped case: two tests,
\* one failure, and the skipped record has duration 0.
C15_Witness ==
  /\ pc = "done"
  /\ Event(line) = "CaseSkipped"
  /\ Len(test_results) = 2
  /\ test_results[1].status = "failed"
  /\ test_results[2].status = "skipped"
  /\ test_results[2].time = IntZero
  /\ output_file[1].attrib.tests = "2"
  /\ output_file[1].attrib.failures = "1"
  /\ Len(output_file[1].children) = 1
  /\ output_file[1].children[1].attrib.tests = "2"
  /\ output_file[1].children[1].attrib.failures = "1"

\* C16: a SuiteStarted line sets current_suite to its name and changes neither
\* current_test nor test_results; a case open when it is read is finalized, with the
\* fields it had, by a terminal line that directly follows.
C16_SuiteStartedFrame ==
  [][ /\ (Step /\ Event(line') = "SuiteStarted")
           => /\ current_suite' = Some(re_match(SuitePat, line')[1][1])
              /\ UNCHANGED <<current_test, test_results>>
              /\ pc' = "reading"
      /\ (Step /\ nlines > 0 /\ Event(line) = "SuiteStarted" /\ current_test # None
            /\ Terminal(line'))
           => /\ Len(test_results') = Len(test_results) + 1
              /\ SubSeq(test_results', 1, Len(test_results)) = test_results
              /\ Last(test_results').classname = current_test[1].classname
              /\ Last(test_results').name = current_test[1].name
              /\ Last(test_results').message = current_test[1].message
              /\ Last(test_results').error_type = current_test[1].error_type
              /\ current_test' = None ]_vars

\* The case started by the first line was open when the second line, a SuiteStarted,
\* was read, and the third line, a terminal one, finalized it.
C16_Witness ==
  /\ nlines = 3
  /\ Terminal(line)
  /\ current_suite # None
  /\ ids = <<1>>
  /\ Len(test_results) = 1
  /\ current_test = None

\* The transition of event ev, carried by line l, and of no other event.
OnlyTransitionOf(ev, l) ==
  LET open == current_test # None IN
  CASE ev = "SuiteStarted" ->
         /\ current_suite' = Some(re_match(SuitePat, l)[1][1])
         /\ UNCHANGED <<current_test, test_results>>
    [] ev = "CaseStarted" ->
         /\ current_test' = Some(NewTest(re_match(TestPat, l)[1][1], re_match(TestPat, l)[1][2]))
         /\ UNCHANGED <<current_suite, test_results>>
    [] ev = "CasePassed" /\ open /\ Numeric(l) ->
         /\ test_results' = Append(test_results,
                                   [current_test[1] EXCEPT !.time = Float(Seconds(l))])
         /\ current_test' = None
         /\ UNCHANGED current_suite
    [] ev = "CaseFailed" /\ open /\ Numeric(l) ->
         /\ test_results' = Append(test_results,
                                   [current_test[1] EXCEPT !.time = Float(Seconds(l)),
                                                           !.status = "failed"])
         /\ current_test' = None
         /\ UNCHANGED current_suite
    [] ev = "ErrorDetail" /\ open ->
         /\ current_test' # None
         /\ current_test'[1].message = Some(ErrorMessage(re_match(ErrorPat, l)[1]))
         /\ current_test'[1].error_type # None
         /\ current_test'[1].status = current_test[1].status
         /\ current_test'[1].time = current_test[1].time
         /\ current_test'[1].classname = current_test[1].classname
         /\ current_test'[1].name = current_test[1].name
         /\ UNCHANGED <<current_suite, test_results>>
    [] ev = "CaseSkipped" /\ open ->
         /\ test_results' = Append(test_results, [current_test[1] EXCEPT !.status = "skipped"])
         /\ current_test' = None
         /\ UNCHANGED current_suite
    [] OTHER -> UNCHANGED parser

\* C17: in every state, a parse_line call applies the transition of the first pattern,
\* in the order SuiteStarted, CaseStarted, CasePassed, CaseFailed, ErrorDetail,
\* CaseSkipped, that matches the line, and of that pattern only; when that transition
\* is a no-op because no case is open, nothing changes even if a later pattern
\* matches too.
C17_FirstMatchOnly ==
  [][ Step => OnlyTransitionOf(Event(line'), line') ]_vars

\* A line matching the passed, the error-detail and the skip pattern, read with a case
\* open, finalized the case as passed with the parsed duration and without a message.
C17_Witness ==
  /\ nlines = 2
  /\ Event(line) = "CasePassed"
  /\ re_match(ErrorPat, line) # None
  /\ re_match(SkipPat, line) # None
  /\ Len(test_results) = 1
  /\ test_results[1].status = "passed"
  /\ test_results[1].time = Number("float", 1, 1)
  /\ test_results[1].message = None
  /\ current_test = None

\* The message and the kind that the ErrorDetail lines d of one case give its record:
\* those of the last one, none when there is none.
MessageFrom(d) ==
  IF d = <<>> THEN None ELSE Some(ErrorMessage(re_match(ErrorPat, Last(d))[1]))

KindFrom(d) == IF d = <<>> THEN None ELSE Some("XCTAssertionFailure")

\* C18: the message and the kind of an open case, and of a record when it is appended,
\* are those given by the ErrorDetail lines read since that case's own CaseStarted
\* line, and are absent when there was none; no other line sets them.
C18_DiagnosisFromOwnDetails ==
  /\ [](current_test # None =>
          /\ current_test[1].message = MessageFrom(details)
          /\ current_test[1].error_type = KindFrom(details))
  /\ [][ Len(test_results') > Len(test_results) =>
           /\ Last(test_results').message = MessageFrom(details')
           /\ Last(test_results').error_type = KindFrom(details')
           /\ SubSeq(test_results', 1, Len(test_results)) = test_results ]_vars

\* A failed record keeps the message of the ErrorDetail line read while its case was
\* open after a different ErrorDetail line was read with no case open.
C18_Witness ==
  /\ nlines = 4
  /\ Event(line) = "ErrorDetail"
  /\ current_test = None
  /\ Len(test_results) = 1
  /\ test_results[1].status = "failed"
  /\ Len(details) = 1
  /\ details[1] # line
  /\ test_results[1].message = MessageFrom(details)
  /\ test_results[1].message # MessageFrom(<<line>>)

\* C14: a collaborator script that hit a processing error caught it (no traceback),
\* printed one line and nothing else, exited with a non-zero status, and left no
\* findings file.
C14_UniformErrorPolicy ==
  (collab_pc = "exited" /\ raised # None) =>
    /\ collab_stderr = <<>>
    /\ Len(collab_stdout) = 1
    /\ exit_status # Some(0)
    /\ findings_file = None

\* C19: a run on an input and a run on that input without its SuiteStarted lines end
\* with the same test_results, and the documents they write, started at the same
\* time, are the same; so any two inputs that differ only in SuiteStarted lines, both
\* having the same input without them, give the same results and document.
C19_SuiteLinesDoNotInfluenceOutput ==
  (replay_phase = 2 /\ pc # "reading") =>
    /\ test_results = replay_saved[1].test_results
    /\ generate_junit_xml(test_results, start_time)
         = generate_junit_xml(replay_saved[1].test_results, start_time)
    /\ (output_file # None /\ replay_saved[1].output_file # None)
         => output_file = replay_saved[1].output_file

\* The first run read a SuiteStarted line between the start and the end of a case and
\* ended with a suite set; the second run, without that line and with no suite set,
\* wrote the same document of one testcase.
C19_Witness ==
  /\ replay_phase = 2
  /\ pc = "done"
  /\ Len(replay_saved[1].input) = 3
  /\ Event(Strip(replay_saved[1].input[2])) = "SuiteStarted"
  /\ replay_saved[1].current_suite # None
  /\ current_suite = None
  /\ Len(replay_input) = 2
  /\ Len(test_results) = 1
  /\ output_file # None
  /\ output_file = replay_saved[1].output_file

====
